---- MODULE Spec2Model ----
(***************************************************************************)
(* The sample-data generator of data/sample/generate_sample_data.py:       *)
(* generate_orders, generate_spots, update_order_totals,                   *)
(* generate_inventory, validate_all and main.                              *)
(*                                                                         *)
(* The module-level configuration of the script (stations, dayparts,       *)
(* advertisers, date range, draw ranges) is data, and the model runs the   *)
(* code on a reduced configuration: two of the five stations, two of the   *)
(* eight dayparts, two of the fifty advertisers, and a date range of a few *)
(* days around 2025-01-01 instead of fifteen months.  Dates are day        *)
(* numbers (day 0 is DATE_START); an ISO date string of a four-digit year  *)
(* orders as its date does, so isoformat/fromisoformat and the string      *)
(* comparisons of validate_all are comparisons of day numbers.  Money is   *)
(* in cents.  Every call on the random generator is a choice from the      *)
(* (reduced) range of that call; a run may leave the first value of the    *)
(* range in at most DRAW_BUDGET calls, so that the runs explored are the   *)
(* run of first values and every run within that many calls of it.         *)
(*                                                                         *)
(* Spec is main.  SpecTables is main from update_order_totals or from       *)
(* validate_all on, on tables given; SpecOrders adds to main the runs of    *)
(* generate_spots on orders tables given; SpecCalls evaluates              *)
(* calculate_spot_rate, _determine_status, _random_time_in_daypart and the  *)
(* daypart weights on their own, over the full configuration, and with     *)
(* them the warm-up count, the local station weights and the flight        *)
(* lengths of generate_orders.                                             *)
(***************************************************************************)
EXTENDS Integers, Sequences, FiniteSets

(* ------------------------------------------------------------------ *)
(* Bounds of the reduced configuration                                  *)
(* ------------------------------------------------------------------ *)

\* (DATE_END - DATE_START).days; 455 in the script
total_days == 3

\* (DATE_START - WARMUP_START).days; 92 in the script
warmup_days == 2

\* days between TODAY_CUTOFF and DATE_END; 44 in the script
CUTOFF_LEAD == 2

\* generator calls of one run that may return another value than the
\* first value of their range
DRAW_BUDGET == 1

(* ------------------------------------------------------------------ *)
(* Configuration                                                        *)
(* ------------------------------------------------------------------ *)

STATIONS == <<"KHQ-TV", "KWYB-TV">>

\* STATIONS[s]["size"], in hundredths
StationSize(s) ==
    CASE s = "KHQ-TV" -> 35
      [] s = "KULR-TV" -> 22
      [] s = "KTMF-TV" -> 18
      [] s = "KNDO-TV" -> 15
      [] s = "KWYB-TV" -> 10

DAYPARTS == <<"EN", "LF">>

\* the stations and the dayparts of the script, for the functions that are
\* called on their own
ALL_STATIONS == <<"KHQ-TV", "KULR-TV", "KTMF-TV", "KNDO-TV", "KWYB-TV">>
ALL_DAYPARTS == <<"EM", "DT", "EF", "EN", "PA", "PR", "LN", "LF">>

\* DAYPARTS[dp]["revenue_share"], in thousandths
RevenueShare(dp) ==
    CASE dp = "EM" -> 65 [] dp = "DT" -> 90 [] dp = "EF" -> 40 [] dp = "EN" -> 175
      [] dp = "PA" -> 135 [] dp = "PR" -> 375 [] dp = "LN" -> 90 [] dp = "LF" -> 30

\* SELLOUT_TARGETS, in percent
SELLOUT_TARGETS(dp) ==
    CASE dp = "EM" -> 60 [] dp = "DT" -> 55 [] dp = "EF" -> 58 [] dp = "EN" -> 75
      [] dp = "PA" -> 72 [] dp = "PR" -> 84 [] dp = "LN" -> 70 [] dp = "LF" -> 45

\* YOY_GROWTH, in percent
YOY_GROWTH(dp) ==
    CASE dp = "EM" -> 4 [] dp = "DT" -> 3 [] dp = "EF" -> 4 [] dp = "EN" -> 6
      [] dp = "PA" -> 6 [] dp = "PR" -> 8 [] dp = "LN" -> 5 [] dp = "LF" -> 3

\* DAYPARTS[dp]["base_aur_mult"], in twentieths
BaseAurMult(dp) ==
    CASE dp = "EM" -> 6 [] dp = "DT" -> 5 [] dp = "EF" -> 7 [] dp = "EN" -> 13
      [] dp = "PA" -> 11 [] dp = "PR" -> 20 [] dp = "LN" -> 10 [] dp = "LF" -> 3

\* midpoint of PRIME_AUR_RANGES[station], in units of 25 dollars
PrimeMid(s) ==
    CASE s = "KHQ-TV" -> 32 [] s = "KULR-TV" -> 24 [] s = "KTMF-TV" -> 21
      [] s = "KNDO-TV" -> 18 [] s = "KWYB-TV" -> 13

DATE_START == 0
DATE_END == DATE_START + total_days
TODAY_CUTOFF == DATE_END - CUTOFF_LEAD
WARMUP_START == DATE_START - warmup_days

\* days of a month in the reduced calendar
DAYS_PER_MONTH == 4

\* the reduced range lies around the turn of the year: DATE_START is
\* 2024-12-31, the last day of December 2024, and the months before and
\* after it have DAYS_PER_MONTH days each.  MonthsSince(d) is the number of
\* months from December 2024 to the month of d (negative before it)
MonthsSince(d) == (d - DATE_START + DAYS_PER_MONTH - 1) \div DAYS_PER_MONTH
MonthOf(d) == ((MonthsSince(d) - 1) % 12) + 1
YearOf(d) == 2025 + ((MonthsSince(d) - 1) \div 12)

SPOT_LENGTHS == <<30, 15, 60>>

\* SPOT_LENGTH_RATE_MULT, in fifths
SPOT_LENGTH_RATE_MULT(len) ==
    CASE len = 15 -> 3 [] len = 30 -> 5 [] len = 60 -> 9

\* seasonal_rate_multiplier, in twentieths
seasonal_rate_multiplier(d) ==
    LET month == MonthOf(d) IN
    IF month \in {10, 11, 12} THEN 23
    ELSE IF month \in {1, 2, 3} THEN 18
    ELSE IF month \in {7, 8} THEN 19
    ELSE 20

\* seasonal_volume_multiplier, in twentieths
seasonal_volume_multiplier(d) ==
    LET month == MonthOf(d) IN
    IF month \in {10, 11, 12} THEN 24
    ELSE IF month \in {1, 2, 3} THEN 17
    ELSE IF month \in {7, 8} THEN 18
    ELSE 20

Max(a, b) == IF a >= b THEN a ELSE b
Min(a, b) == IF a <= b THEN a ELSE b

\* Python's round() of the fraction n/d (n >= 0, d > 0): to the nearest
\* integer, a tie to the even one
Round(n, d) ==
    LET q == n \div d
        r == n % d
    IN  IF 2 * r < d THEN q
        ELSE IF 2 * r > d THEN q + 1
        ELSE IF q % 2 = 0 THEN q ELSE q + 1

(* Fractions: a pair <<numerator, denominator>> in lowest terms, for the
   quotients the script computes in floating point *)
RECURSIVE GCD(_, _)
GCD(a, b) == IF b = 0 THEN a ELSE GCD(b, a % b)

Frac(a, b) == <<a \div GCD(a, b), b \div GCD(a, b)>>

FracAdd(x, y) ==
    LET l == (x[2] \div GCD(x[2], y[2])) * y[2]
    IN  Frac(x[1] * (l \div x[2]) + y[1] * (l \div y[2]), l)

FracMul(x, y) ==
    LET g1 == GCD(x[1], y[2])
        g2 == GCD(y[1], x[2])
    IN  Frac((x[1] \div g1) * (y[1] \div g2), (x[2] \div g2) * (y[2] \div g1))

FracDiv(x, y) == FracMul(x, <<y[2], y[1]>>)

\* _raw_vol[dp] = revenue_share / base_aur_mult
raw_vol(dp) == FracDiv(Frac(RevenueShare(dp), 1000), Frac(BaseAurMult(dp), 20))

\* sum(_raw_vol.values()), over the dayparts of a list
RECURSIVE SumRawVol(_)
SumRawVol(dps) ==
    IF dps = << >> THEN <<0, 1>>
    ELSE FracAdd(raw_vol(Head(dps)), SumRawVol(Tail(dps)))

\* _vol_total = sum(_raw_vol.values())
vol_total == SumRawVol(ALL_DAYPARTS)

\* DAYPART_VOLUME_WEIGHTS[dp] = v / _vol_total
DAYPART_VOLUME_WEIGHTS(dp) == FracDiv(raw_vol(dp), vol_total)

\* variant: the revenue share of the daypart as its weight
revenue_share_weights(dp) == Frac(RevenueShare(dp), 1000)

\* daypart_weights of generate_spots, the p of rng.choice(daypart_codes, ...)
daypart_weights(dp) == DAYPART_VOLUME_WEIGHTS(dp)

\* generate_advertisers: weights in hundredths; share = weight / total_w
generate_advertisers ==
    << [name |-> "Pacific Auto Group", type |-> "national", weight |-> 1000],
       [name |-> "Pullman Pizza Palace", type |-> "local", weight |-> 10] >>

RECURSIVE SumWeights(_)
SumWeights(advs) ==
    IF advs = << >> THEN 0 ELSE Head(advs).weight + SumWeights(Tail(advs))

total_w == SumWeights(generate_advertisers)

\* share >= num/1000
ShareAtLeast(adv, num) == adv.weight * 1000 >= num * total_w

\* the five revenue-share tiers of generate_orders and generate_spots
Tier(adv) ==
    IF ShareAtLeast(adv, 60) THEN 1
    ELSE IF ShareAtLeast(adv, 30) THEN 2
    ELSE IF ShareAtLeast(adv, 15) THEN 3
    ELSE IF ShareAtLeast(adv, 8) THEN 4
    ELSE 5

generate_agencies == <<"Copacino Fujikado", "PB& Seattle">>

NONE == "None"

\* a variant of ORDER_DATE_FLOOR: the floor is the first day of the main range
order_date_floor_main == DATE_START

\* date(2023, 9, 1) of generate_orders: the longest lead before WARMUP_START
ORDER_DATE_FLOOR == WARMUP_START - 2

(* ------------------------------------------------------------------ *)
(* Ranges of the generator calls (reduced); the first value of a range  *)
(* is the one a call returns at no cost to the draw budget              *)
(* ------------------------------------------------------------------ *)

Vals(seq) == {seq[k] : k \in 1..Len(seq)}

\* rng.integers(lo, hi): lo .. hi - 1
integers(lo, hi) == [k \in 1..(hi - lo) |-> lo + k - 1]

\* rng.integers(lo, hi) with the largest value first
integers_down(lo, hi) == [k \in 1..(hi - lo) |-> hi - k]

\* rng.random(), in units of 1/100000: for the agency of a local advertiser
\* and for the status of a spot
RANDOM_AGENCY == <<50000, 90000>>
RANDOM_STATUS == <<50000, 1000, 4000>>

\* rng.normal(1.0, 0.08), in twentieths
NORMAL == <<20, 14, 26>>

\* rng.integers(26, 40) ... rng.integers(2, 5) of generate_orders, by tier
n_orders_range(tier) ==
    CASE tier = 1 -> integers(1, 3)
      [] tier = 2 -> integers(1, 3)
      [] tier = 3 -> integers(1, 3)
      [] tier = 4 -> integers(1, 2)
      [] tier = 5 -> integers(1, 2)

\* rng.integers(3, 6) for a national advertiser, rng.integers(1, 3) for a
\* local one; the reduced configuration has fewer stations than a national
\* advertiser may draw, and a count stops at the length of the list
n_stations_range(type) ==
    LET r == IF type = "national" THEN integers(3, 6) ELSE integers(1, 3)
    IN  [k \in 1..Len(r) |-> Min(r[k], Len(STATIONS))]

\* rng.choice(station_list, size=n, replace=False): the stations drawn, as
\* a set; the first value is the first n stations of the list
station_choices(n) ==
    <<{STATIONS[k] : k \in 1..n}>> \o
    (IF n = 1 THEN <<{STATIONS[2]}>> ELSE << >>)

\* rng.choice([1, 2, 4, 4, 8, 8, 13, 13, 13]), in weeks
FLIGHT_WEEKS == <<2, 1, 4>>

\* days of a week (7 in the script); the reduced calendar has weeks of a day
DAYS_PER_WEEK == 1

\* rng.integers(0, warmup_days); the first value is the last day before
\* DATE_START
warmup_offsets == integers_down(0, warmup_days)

\* rng.integers(-14, 15)
JITTER == <<0, -1, 1>>

\* rng.integers(1, 31)
LEAD_DAYS == integers(1, 3)

\* rng.integers(6, 14) ... rng.integers(1, 4) of generate_spots, by tier
spots_per_week_range(tier) ==
    CASE tier = 1 -> integers(1, 3)
      [] tier = 2 -> integers(1, 3)
      [] tier = 3 -> integers(1, 3)
      [] tier = 4 -> integers(1, 2)
      [] tier = 5 -> integers(1, 2)

\* DAYPARTS[dp]["start"], DAYPARTS[dp]["end"], in minutes of the day
DaypartStart(dp) ==
    CASE dp = "EM" -> 360 [] dp = "DT" -> 540 [] dp = "EF" -> 960
      [] dp = "EN" -> 1020 [] dp = "PA" -> 1110 [] dp = "PR" -> 1200
      [] dp = "LN" -> 1380 [] dp = "LF" -> 1415
DaypartEnd(dp) ==
    CASE dp = "EM" -> 540 [] dp = "DT" -> 960 [] dp = "EF" -> 1020
      [] dp = "EN" -> 1110 [] dp = "PA" -> 1200 [] dp = "PR" -> 1380
      [] dp = "LN" -> 1415 [] dp = "LF" -> 120

\* rng.integers(start_mins, end_mins): the first and the last minute
minutes_range(lo, hi) == <<lo, hi - 1>>

\* generate_programs, two names of each daypart
generate_programs(dp) ==
    CASE dp = "EN" -> <<"Evening News at 5", "Evening News at 6">>
      [] dp = "LF" -> <<"The Tonight Show", "Nightline">>
      [] OTHER -> <<"Local Hour", "The Talk">>

(* ------------------------------------------------------------------ *)
(* State                                                                *)
(* ------------------------------------------------------------------ *)

VARIABLES
    pc,             \* the statement of main that runs next
    budget,         \* draws that may still leave the first value of their range
    adv_i,          \* generate_orders: advertisers taken from the list so far
    n_orders,       \* generate_orders: n_orders of the current advertiser
    n_warmup,       \* generate_orders: n_warmup of the current advertiser
    agency,         \* generate_orders: agency of the current advertiser
    adv_stations,   \* generate_orders: stations of the current advertiser
    i,              \* generate_orders: index of the inner loop
    order_counter,  \* generate_orders: order_counter
    orders,         \* orders_df: a sequence of rows
    ord_i,          \* generate_spots: rows of orders_df taken so far
    vol_mult,       \* generate_spots: vol_mult of the current order
    n_spots,        \* generate_spots: n_spots of the current order
    daypart_assignments,  \* generate_spots: the dayparts drawn for the order
    spot_i,         \* generate_spots: index of the inner loop
    spot_counter,   \* generate_spots: spot_counter
    spots,          \* spots_df: a sequence of rows
    inv_k,          \* generate_inventory: (station, daypart) pairs done
    inventory,      \* inventory_df: a sequence of rows
    valid,          \* main: the result of validate_all
    errors,         \* validate_all: the violations logged
    written,        \* main: the files of the output directory, as (name, table) pairs
    exit_code,      \* main: the status given to sys.exit
    call,           \* a function called on its own: its name and arguments
    result          \* a function called on its own: what it returned

orderVars == <<adv_i, n_orders, n_warmup, agency, adv_stations, i, order_counter>>
spotVars == <<ord_i, vol_mult, n_spots, daypart_assignments, spot_i, spot_counter>>

callVars == <<call, result>>

mainVars == <<valid, errors, written, exit_code>>

vars == <<pc, budget, orderVars, orders, spotVars, spots, inv_k, inventory,
          mainVars, callVars>>

\* no value yet
UNSET == "unset"

\* what a value costs the draw budget
Cost(x, seq) == IF x = seq[1] THEN 0 ELSE 1

\* the values a generator call may return when the step has already spent
\* that much of the budget
Draw(seq, spent) == IF budget > spent THEN Vals(seq) ELSE {seq[1]}

\* f"SP-{spot_counter:06d}"
SpotId(n) == <<"SP", n>>

\* f"WO-{order_counter:05d}"
OrderId(n) == <<"WO", n>>

Init ==
    /\ pc = "generate_orders"
    /\ budget = DRAW_BUDGET
    /\ adv_i = 0
    /\ n_orders = 0
    /\ n_warmup = 0
    /\ agency = NONE
    /\ adv_stations = {}
    /\ i = 0
    /\ order_counter = 1000
    /\ orders = << >>
    /\ ord_i = 0
    /\ vol_mult = UNSET
    /\ n_spots = 0
    /\ daypart_assignments = << >>
    /\ spot_i = 0
    /\ spot_counter = 100000
    /\ spots = << >>
    /\ inv_k = 0
    /\ inventory = << >>
    /\ valid = UNSET
    /\ errors = << >>
    /\ written = {}
    /\ exit_code = UNSET
    /\ call = NONE
    /\ result = NONE

(* ------------------------------------------------------------------ *)
(* generate_orders                                                      *)
(* ------------------------------------------------------------------ *)

\* max(1, int(n_orders * 0.18))
NWarmup(n) == Max(1, (n * 18) \div 100)

\* the stations of a set, in the order of STATIONS
StationList(ss) ==
    LET before(s) == Cardinality({t \in ss :
                        \E a, b \in 1..Len(STATIONS) :
                            STATIONS[a] = t /\ STATIONS[b] = s /\ a < b})
    IN  [k \in 1..Cardinality(ss) |-> CHOOSE s \in ss : before(s) = k - 1]

\* variant: the station of an order is drawn from all the stations
all_station_list == STATIONS

\* station = rng.choice(adv_stations): the stations the order's station is
\* drawn from
adv_station_list == StationList(adv_stations)

\* the head of the loop over advertisers: order count, agency, stations
\* a variant of uses_agency: only a local advertiser can use an agency
uses_agency_local(type, u) == type # "national" /\ u < 55000

\* adv["type"] == "national" or rng.random() < 0.55
uses_agency(type, u) == type = "national" \/ u < 55000

GenerateOrders_Advertiser ==
    /\ pc = "generate_orders"
    /\ i = n_orders + n_warmup
    /\ adv_i < Len(generate_advertisers)
    /\ LET adv == generate_advertisers[adv_i + 1]
           nr == n_orders_range(Tier(adv))
           \* "national" or rng.random() < 0.55: no draw for a national one
           ur == IF adv.type = "national" THEN <<0>> ELSE RANDOM_AGENCY
           sr == n_stations_range(adv.type)
       IN  \E n \in Draw(nr, 0) :
           LET c1 == Cost(n, nr) IN
           \E u \in Draw(ur, c1) :
           LET c2 == c1 + Cost(u, ur)
               uses == uses_agency(adv.type, u)
               ar == IF uses THEN generate_agencies ELSE <<NONE>>
           IN
           \E ag \in Draw(ar, c2) :
           LET c3 == c2 + Cost(ag, ar) IN
           \E ns \in Draw(sr, c3) :
           LET c4 == c3 + Cost(ns, sr) IN
           \E ss \in Draw(station_choices(ns), c4) :
           LET c == c4 + Cost(ss, station_choices(ns)) IN
               /\ c <= budget
               /\ budget' = budget - c
               /\ n_orders' = n
               /\ n_warmup' = NWarmup(n)
               /\ agency' = ag
               /\ adv_stations' = ss
    /\ adv_i' = adv_i + 1
    /\ i' = 0
    /\ UNCHANGED <<callVars, pc, order_counter, orders, spotVars, spots, inv_k, inventory,
                   mainVars>>

\* variant: an order is dropped only if it ends before the warm-up window
ends_before_warmup(end_date) == end_date < WARMUP_START

\* "if end_date < DATE_START: continue"
ends_before_range(end_date) == end_date < DATE_START

\* variant: the order_id numbered by the pass of the advertiser's loop
order_id_by_pass == OrderId(1000 + i + 1)

\* "order_counter += 1" and f"WO-{order_counter:05d}": the order_id of the
\* order of this pass
order_id_by_counter == OrderId(order_counter + 1)

\* one pass of the loop "for i in range(n_orders + n_warmup)"
\* a variant of regular_start_offset without the floor at DATE_START
start_offset_unfloored(flight_days, base_offset, jitter) ==
    Min(total_days - flight_days, base_offset + jitter)

\* start_offset = max(0, min(total_days - flight_days, base_offset + jitter))
regular_start_offset(flight_days, base_offset, jitter) ==
    Max(0, Min(total_days - flight_days, base_offset + jitter))

GenerateOrders_Order ==
    /\ pc = "generate_orders"
    /\ i < n_orders + n_warmup
    /\ order_counter' = order_counter + 1
    /\ i' = i + 1
    /\ LET adv == generate_advertisers[adv_i]
           stns == adv_station_list
           offs == IF i < n_warmup THEN warmup_offsets ELSE JITTER
       IN  \E station \in Draw(stns, 0) :
           LET c1 == Cost(station, stns) IN
           \E flight_weeks \in Draw(FLIGHT_WEEKS, c1) :
           LET c2 == c1 + Cost(flight_weeks, FLIGHT_WEEKS) IN
           \E o \in Draw(offs, c2) :
           LET c3 == c2 + Cost(o, offs)
               flight_days == flight_weeks * DAYS_PER_WEEK
               idx == i - n_warmup
               base_offset == (idx * total_days) \div n_orders
               start_date ==
                   IF i < n_warmup
                   THEN WARMUP_START + o
                   ELSE DATE_START
                        + regular_start_offset(flight_days, base_offset, o)
               end_raw == start_date + (flight_days - 1)
               end_date == IF end_raw > DATE_END THEN DATE_END ELSE end_raw
           IN
           IF ends_before_range(end_date)
           THEN \* continue
                /\ c3 <= budget
                /\ budget' = budget - c3
                /\ orders' = orders
           ELSE \E lead_days \in Draw(LEAD_DAYS, c3) :
                LET c == c3 + Cost(lead_days, LEAD_DAYS)
                    order_raw == start_date - lead_days
                    order_date == IF order_raw < ORDER_DATE_FLOOR
                                  THEN ORDER_DATE_FLOOR ELSE order_raw
                IN  /\ c <= budget
                    /\ budget' = budget - c
                    /\ orders' = Append(orders,
                          [order_id |-> order_id_by_counter,
                           advertiser_name |-> adv.name,
                           agency_name |-> agency,
                           order_date |-> order_date,
                           start_date |-> start_date,
                           end_date |-> end_date,
                           order_total |-> 0,
                           station |-> station])
    /\ UNCHANGED <<callVars, pc, adv_i, n_orders, n_warmup, agency, adv_stations, spotVars,
                   spots, inv_k, inventory, mainVars>>

\* the loops are over: the rows become orders_df
GenerateOrders_Return ==
    /\ pc = "generate_orders"
    /\ i = n_orders + n_warmup
    /\ adv_i = Len(generate_advertisers)
    /\ pc' = "generate_spots"
    /\ UNCHANGED <<callVars, budget, orderVars, orders, spotVars, spots, inv_k, inventory, mainVars>>

(* ------------------------------------------------------------------ *)
(* generate_spots                                                       *)
(* ------------------------------------------------------------------ *)

\* variant: the noise is applied as drawn, without the clamp
calculate_spot_rate_unclamped(station, daypart, length, air_date, noise) ==
    LET base_rate == PrimeMid(station) * BaseAurMult(daypart)
        length_mult == SPOT_LENGTH_RATE_MULT(length)
        season_mult == seasonal_rate_multiplier(air_date)
        yoy_mult == IF YearOf(air_date) >= 2025
                    THEN 100 + YOY_GROWTH(daypart) ELSE 100
    IN  Round(base_rate * length_mult * season_mult * yoy_mult * noise, 1600)

\* calculate_spot_rate, in cents; noise is the value rng.normal returned.
\* The product of the factors is in units of 1/160000 dollar.
calculate_spot_rate(station, daypart, length, air_date, noise) ==
    LET base_rate == PrimeMid(station) * BaseAurMult(daypart)
        length_mult == SPOT_LENGTH_RATE_MULT(length)
        season_mult == seasonal_rate_multiplier(air_date)
        yoy_mult == IF YearOf(air_date) >= 2025
                    THEN 100 + YOY_GROWTH(daypart) ELSE 100
        clamped == Max(17, Min(23, noise))
    IN  Round(base_rate * length_mult * season_mult * yoy_mult * clamped, 1600)

\* _random_time_in_daypart: start_mins and end_mins, the latter a day later
\* for a window that wraps past midnight
daypart_minutes(dp) ==
    LET start_mins == DaypartStart(dp)
        end_mins == DaypartEnd(dp)
    IN  <<start_mins,
          IF end_mins <= start_mins THEN end_mins + 24 * 60 ELSE end_mins>>

\* _random_time_in_daypart, in minutes of the day; rand_mins is the value
\* rng.integers returned
time_range(dp) == minutes_range(daypart_minutes(dp)[1], daypart_minutes(dp)[2])

\* variant: the minutes drawn, without the reduction modulo a day
random_time_unreduced(rand_mins) == rand_mins

random_time_in_daypart(rand_mins) == rand_mins % (24 * 60)

high_preempt_station == "KHQ-TV"

\* variant: the make-good band is tested by itself, not after the
\* pre-emption band
status_of_roll_apart(daypart, station, roll) ==
    LET news == daypart \in {"EN", "LN"}
        base == IF news THEN 3500 ELSE 2000
        preempt_chance == IF station = high_preempt_station
                          THEN (base * 18) \div 10 ELSE base
        mg_chance == IF station = high_preempt_station
                     THEN (1500 * 15) \div 10 ELSE 1500
    IN  IF roll < preempt_chance THEN "preempted"
        ELSE IF roll < mg_chance THEN "makegood"
        ELSE "aired"

\* _determine_status for an air date on or before the cutoff; roll is the
\* value rng.random returned, chances are in units of 1/100000
status_of_roll(daypart, station, roll) ==
    LET news == daypart \in {"EN", "LN"}
        base == IF news THEN 3500 ELSE 2000
        preempt_chance == IF station = high_preempt_station
                          THEN (base * 18) \div 10 ELSE base
        mg_chance == IF station = high_preempt_station
                     THEN (1500 * 15) \div 10 ELSE 1500
    IN  IF roll < preempt_chance THEN "preempted"
        ELSE IF roll < preempt_chance + mg_chance THEN "makegood"
        ELSE "aired"

\* the advertiser of a name; adv_weights.get(adv_name, 0.005) falls in the
\* lowest tier for a name that is not in the list
TierOfName(adv_name) ==
    IF \E k \in 1..Len(generate_advertisers) :
           generate_advertisers[k].name = adv_name
    THEN Tier(generate_advertisers[
             CHOOSE k \in 1..Len(generate_advertisers) :
                 generate_advertisers[k].name = adv_name])
    ELSE 5

\* a variant of effective_start: the start of the flight as booked
booked_start(order) == order.start_date

\* the flight of an order clipped to the main range
effective_start(order) == Max(order.start_date, DATE_START)

\* a variant of effective_end: the last day of the clipped flight is left out
effective_end_exclusive(order) == Min(order.end_date, DATE_END) - 1

effective_end(order) == Min(order.end_date, DATE_END)

\* variant: the day count of the flight as booked, not of the clipped flight
unclipped_days(order) == order.end_date - order.start_date + 1

\* flight_days = (effective_end - effective_start).days + 1
clipped_days(order) == effective_end(order) - effective_start(order) + 1

\* variant: the order_id rebuilt from the position of the order in orders_df
order_id_by_position(order) == OrderId(1000 + ord_i)

\* "order_id": order["order_id"]
order_id_of(order) == order.order_id

\* variant: the first configured station, whatever the order says
station_first(order) == STATIONS[1]

\* station = order["station"]
station_of(order) == order.station

\* variant: the status rolled without a look at the cutoff
determine_status_rolled(air_date, daypart, station, roll) ==
    status_of_roll(daypart, station, roll)

\* _determine_status: "scheduled" for a date after the cutoff
determine_status(air_date, daypart, station, roll) ==
    IF air_date > TODAY_CUTOFF THEN "scheduled"
    ELSE status_of_roll(daypart, station, roll)

\* the calls of rng.random() _determine_status makes: it returns before the
\* roll for a date after the cutoff
determine_status_draws(air_date) == IF air_date > TODAY_CUTOFF THEN 0 ELSE 1

\* mid_date = start + timedelta(days=flight_days // 2), where start is the
\* start_date of the order and flight_days the day count of the clipped flight
mid_date(order) == order.start_date + clipped_days(order) \div 2

\* n_spots of an order, from the spots_per_week drawn and the vol_mult of
\* its mid_date
SpotCount(order, spots_per_week, vm) ==
    LET flight_days == clipped_days(order)
        n == Max(1, (spots_per_week * flight_days) \div DAYS_PER_WEEK)
    IN  Max(1, (n * vm) \div 20)

\* rng.choice(daypart_codes, size=n_spots, p=daypart_weights): the first
\* daypart for every spot, the second for every spot, or the dayparts in turn
daypart_vectors(n) ==
    << [k \in 1..n |-> DAYPARTS[1]],
       [k \in 1..n |-> DAYPARTS[2]],
       [k \in 1..n |-> DAYPARTS[((k - 1) % Len(DAYPARTS)) + 1]] >>

\* the head of the loop over orders_df: clip, spot count, dayparts
GenerateSpots_Order ==
    /\ pc = "generate_spots"
    /\ spot_i = n_spots
    /\ ord_i < Len(orders)
    /\ ord_i' = ord_i + 1
    /\ spot_i' = 0
    /\ LET order == orders[ord_i + 1]
           sr == spots_per_week_range(TierOfName(order.advertiser_name))
       IN  IF clipped_days(order) <= 0
           THEN \* continue
                /\ n_spots' = 0
                /\ daypart_assignments' = << >>
                /\ budget' = budget
                /\ vol_mult' = vol_mult
           ELSE \E spots_per_week \in Draw(sr, 0) :
                LET c1 == Cost(spots_per_week, sr)
                    vm == seasonal_volume_multiplier(mid_date(order))
                    n == SpotCount(order, spots_per_week, vm)
                IN
                \E da \in Draw(daypart_vectors(n), c1) :
                LET c == c1 + Cost(da, daypart_vectors(n))
                IN  /\ c <= budget
                    /\ budget' = budget - c
                    /\ vol_mult' = vm
                    /\ n_spots' = n
                    /\ daypart_assignments' = da
    /\ UNCHANGED <<callVars, pc, orderVars, orders, spot_counter, spots, inv_k, inventory,
                   mainVars>>

\* one pass of the loop "for i in range(n_spots)"
GenerateSpots_Spot ==
    /\ pc = "generate_spots"
    /\ spot_i < n_spots
    /\ spot_counter' = spot_counter + 1
    /\ spot_i' = spot_i + 1
    /\ LET order == orders[ord_i]
           station == station_of(order)
           dp == daypart_assignments[spot_i + 1]
           dr == integers_down(0, clipped_days(order))
           tr == time_range(dp)
           pr == generate_programs(dp)
       IN  \E day_offset \in Draw(dr, 0) :
           LET c1 == Cost(day_offset, dr)
               air_date == effective_start(order) + day_offset
               \* _determine_status draws nothing for a date after the cutoff
               ur == IF determine_status_draws(air_date) = 0 THEN <<0>>
                     ELSE RANDOM_STATUS
           IN
           \E rand_mins \in Draw(tr, c1) :
           LET c2 == c1 + Cost(rand_mins, tr) IN
           \E length \in Draw(SPOT_LENGTHS, c2) :
           LET c3 == c2 + Cost(length, SPOT_LENGTHS) IN
           \E noise \in Draw(NORMAL, c3) :
           LET c4 == c3 + Cost(noise, NORMAL) IN
           \E roll \in Draw(ur, c4) :
           LET c5 == c4 + Cost(roll, ur) IN
           \E program \in Draw(pr, c5) :
           LET c == c5 + Cost(program, pr) IN
               /\ c <= budget
               /\ budget' = budget - c
               /\ spots' = Append(spots,
                      [spot_id |-> SpotId(spot_counter + 1),
                       order_id |-> order_id_of(order),
                       air_date |-> air_date,
                       air_time |-> random_time_in_daypart(rand_mins),
                       daypart |-> dp,
                       program |-> program,
                       length |-> length,
                       rate |-> calculate_spot_rate(station, dp, length,
                                                    air_date, noise),
                       status |-> determine_status(air_date, dp, station, roll),
                       station |-> station])
    /\ UNCHANGED <<callVars, pc, orderVars, orders, ord_i, vol_mult, n_spots,
                   daypart_assignments,
                   inv_k, inventory, mainVars>>

\* the loops are over: the rows become spots_df
GenerateSpots_Return ==
    /\ pc = "generate_spots"
    /\ spot_i = n_spots
    /\ ord_i = Len(orders)
    /\ pc' = "update_order_totals"
    /\ UNCHANGED <<callVars, budget, orderVars, orders, spotVars, spots, inv_k, inventory, mainVars>>

(* ------------------------------------------------------------------ *)
(* update_order_totals                                                  *)
(* ------------------------------------------------------------------ *)

\* a missing order_id (NaN) of a spot row
NULL_ID == <<"NaN", 0>>

\* spots_df.groupby("order_id")["rate"].sum() at one order_id, and whether
\* the group exists; groupby drops the rows whose key is missing
RECURSIVE GroupSum(_, _)
GroupSum(spots_df, order_id) ==
    IF spots_df = << >> THEN 0
    ELSE (IF Head(spots_df).order_id = order_id THEN Head(spots_df).rate ELSE 0)
         + GroupSum(Tail(spots_df), order_id)
HasGroup(spots_df, order_id) ==
    /\ order_id # NULL_ID
    /\ \E k \in 1..Len(spots_df) : spots_df[k].order_id = order_id

\* variant: the sum of the rates is added to the order_total at hand
update_order_totals_add(orders_df, spots_df) ==
    [k \in 1..Len(orders_df) |->
        [orders_df[k] EXCEPT !.order_total =
            @ + (IF HasGroup(spots_df, orders_df[k].order_id)
                 THEN GroupSum(spots_df, orders_df[k].order_id)
                 ELSE 0)]]

\* a variant of update_order_totals: the merge is an inner one, and an order
\* without a group is not in the table returned
update_order_totals_inner(orders_df, spots_df) ==
    LET kept == SelectSeq(orders_df,
                    LAMBDA order : HasGroup(spots_df, order.order_id))
    IN  [k \in 1..Len(kept) |->
            [kept[k] EXCEPT !.order_total = GroupSum(spots_df, kept[k].order_id)]]

\* update_order_totals: the left merge keeps every row of orders_df in
\* place, the column order_total is overwritten with the sum of the group,
\* and fillna(0) gives 0 to an order without a group; round(2) leaves a sum
\* of whole cents as it is
update_order_totals(orders_df, spots_df) ==
    [k \in 1..Len(orders_df) |->
        [orders_df[k] EXCEPT !.order_total =
            IF HasGroup(spots_df, orders_df[k].order_id)
            THEN GroupSum(spots_df, orders_df[k].order_id)
            ELSE 0]]

\* variant: the table update_order_totals returns is not kept
UpdateOrderTotals_discarded ==
    /\ pc = "update_order_totals"
    /\ pc' = "generate_inventory"
    /\ UNCHANGED <<callVars, budget, orderVars, orders, spotVars, spots, inv_k, inventory,
                   mainVars>>

\* main, step 4
UpdateOrderTotals ==
    /\ pc = "update_order_totals"
    /\ orders' = update_order_totals(orders, spots)
    /\ pc' = "generate_inventory"
    /\ UNCHANGED <<callVars, budget, orderVars, spotVars, spots, inv_k, inventory, mainVars>>

(* ------------------------------------------------------------------ *)
(* generate_inventory                                                   *)
(* ------------------------------------------------------------------ *)

\* variant: the range without its last day
all_dates_open == [k \in 1..(DATE_END - DATE_START) |-> DATE_START + k - 1]

\* pd.date_range(DATE_START, DATE_END, freq="D")
all_dates == [k \in 1..(DATE_END - DATE_START + 1) |-> DATE_START + k - 1]
n_days == Len(all_dates)

\* rng.random(n_days) + 0.1, in tenths: the same weight for every day, or
\* the first or the last day ten times as heavy as the others
raw_weight_vectors ==
    << [k \in 1..n_days |-> 1],
       [k \in 1..n_days |-> IF k = 1 THEN 10 ELSE 1],
       [k \in 1..n_days |-> IF k = n_days THEN 10 ELSE 1] >>

\* a variant of booked_count: only the spots that aired are counted
booked_count_aired(spots_df, station, dp, d) ==
    Cardinality({k \in 1..Len(spots_df) :
        /\ spots_df[k].station = station
        /\ spots_df[k].daypart = dp
        /\ spots_df[k].air_date = d
        /\ spots_df[k].status = "aired"})

\* booked_lookup.get(key, 0)
booked_count(spots_df, station, dp, d) ==
    Cardinality({k \in 1..Len(spots_df) :
        /\ spots_df[k].station = station
        /\ spots_df[k].daypart = dp
        /\ spots_df[k].air_date = d})

\* total_booked_map.get(key_base, 0)
total_spots(spots_df, station, dp) ==
    Cardinality({k \in 1..Len(spots_df) :
        spots_df[k].station = station /\ spots_df[k].daypart = dp})

\* int(round(total_booked / target_so)) if total_booked > 0 else n_days
total_target_avails(total_booked, dp) ==
    IF total_booked > 0 THEN Round(total_booked * 100, SELLOUT_TARGETS(dp))
    ELSE n_days

RECURSIVE SumSeq(_)
SumSeq(q) == IF q = << >> THEN 0 ELSE Head(q) + SumSeq(Tail(q))

\* (raw_weights / raw_weights.sum() * remaining_to_add).astype(int)
extra_per_day(raw_weights, remaining_to_add) ==
    [k \in 1..n_days |->
        (raw_weights[k] * remaining_to_add) \div SumSeq(raw_weights)]

\* rng.choice(n_days, size=shortfall, replace=False): the days drawn, as a
\* set; the first days of the range or the last
bump_choices(shortfall) ==
    << 1..shortfall, (n_days - shortfall + 1)..n_days >>

\* the (station, daypart) pair of the k-th pass of the two loops
PairStation(k) == STATIONS[((k - 1) \div Len(DAYPARTS)) + 1]
PairDaypart(k) == DAYPARTS[((k - 1) % Len(DAYPARTS)) + 1]
n_pairs == Len(STATIONS) * Len(DAYPARTS)

\* variant: the remainder is not handed out
bumped_none(extra, bump_indices) == extra

\* "for idx in bump_indices: extra_per_day[idx] += 1"
bumped(extra, bump_indices) ==
    [k \in 1..n_days |-> extra[k] + (IF k \in bump_indices THEN 1 ELSE 0)]

\* variant: the avails of a day are the avails added, without the floor
PairRows_no_floor(spots_df, station, dp, extra) ==
    [k \in 1..n_days |->
        LET booked == booked_count(spots_df, station, dp, all_dates[k])
            avails == extra[k]
        IN  [date |-> all_dates[k],
             daypart |-> dp,
             station |-> station,
             total_avails |-> avails,
             booked |-> booked,
             remaining |-> avails - booked]]

\* the rows of one pair, from the avails added to every day
PairRows(spots_df, station, dp, extra) ==
    [k \in 1..n_days |->
        LET booked == booked_count(spots_df, station, dp, all_dates[k])
            avails == booked + extra[k]
        IN  [date |-> all_dates[k],
             daypart |-> dp,
             station |-> station,
             total_avails |-> avails,
             booked |-> booked,
             remaining |-> avails - booked]]

\* one pass of "for station in STATIONS: for dp_code in DAYPARTS"
GenerateInventory_Pair ==
    /\ pc = "generate_inventory"
    /\ inv_k < n_pairs
    /\ inv_k' = inv_k + 1
    /\ LET station == PairStation(inv_k + 1)
           dp_code == PairDaypart(inv_k + 1)
           total_booked == total_spots(spots, station, dp_code)
           target == total_target_avails(total_booked, dp_code)
           sum_floor == SumSeq([k \in 1..n_days |->
                           booked_count(spots, station, dp_code, all_dates[k])])
           remaining_to_add == Max(0, target - sum_floor)
       IN  IF remaining_to_add > 0
           THEN \E raw_weights \in Draw(raw_weight_vectors, 0) :
                LET c1 == Cost(raw_weights, raw_weight_vectors)
                    extra == extra_per_day(raw_weights, remaining_to_add)
                    shortfall == remaining_to_add - SumSeq(extra)
                IN  IF shortfall > 0
                    THEN \E bump_indices \in Draw(bump_choices(shortfall), c1) :
                           LET c == c1 + Cost(bump_indices, bump_choices(shortfall))
                           IN  /\ c <= budget
                               /\ budget' = budget - c
                               /\ inventory' = inventory \o
                                    PairRows(spots, station, dp_code,
                                             bumped(extra, bump_indices))
                    ELSE /\ c1 <= budget
                         /\ budget' = budget - c1
                         /\ inventory' = inventory \o
                              PairRows(spots, station, dp_code, extra)
           ELSE /\ budget' = budget
                /\ inventory' = inventory \o
                     PairRows(spots, station, dp_code, [k \in 1..n_days |-> 0])
    /\ UNCHANGED <<callVars, pc, orderVars, orders, spotVars, spots, mainVars>>

\* the loops are over: the rows become inventory_df
GenerateInventory_Return ==
    /\ pc = "generate_inventory"
    /\ inv_k = n_pairs
    /\ pc' = "validate_all"
    /\ UNCHANGED <<callVars, budget, orderVars, orders, spotVars, spots, inv_k, inventory, mainVars>>

(* ------------------------------------------------------------------ *)
(* validate_all                                                         *)
(* ------------------------------------------------------------------ *)

\* spots_df.merge(orders_df[...], on="order_id"): the inner join, as the
\* pairs (row of spots_df, row of orders_df) of equal order_id
Merged(orders_df, spots_df) ==
    {<<k, j>> \in (1..Len(spots_df)) \X (1..Len(orders_df)) :
        spots_df[k].order_id = orders_df[j].order_id}

\* one logged violation: the number of the check and the count in its text
Violation(check, count) == [check |-> check, count |-> count]

\* errors.append(...) if the count is positive
AppendIf(errs, check, count) ==
    IF count > 0 THEN Append(errs, Violation(check, count)) ELSE errs

\* validate_all: the list "errors" once the seven checks have run
validate_all_checks(orders_df, spots_df, inventory_df) ==
    LET valid_orders == {orders_df[j].order_id : j \in 1..Len(orders_df)}
        invalid_refs == {k \in 1..Len(spots_df) :
                            spots_df[k].order_id \notin valid_orders}
        merged == Merged(orders_df, spots_df)
        out_of_range == {m \in merged :
                            \/ spots_df[m[1]].air_date < orders_df[m[2]].start_date
                            \/ spots_df[m[1]].air_date > orders_df[m[2]].end_date}
        station_mismatch == {m \in merged :
                                spots_df[m[1]].station # orders_df[m[2]].station}
        null_orders == {k \in 1..Len(spots_df) : spots_df[k].order_id = NULL_ID}
        neg_inv == {k \in 1..Len(inventory_df) : inventory_df[k].remaining < 0}
        inv_check == {k \in 1..Len(inventory_df) :
                         inventory_df[k].remaining #
                           inventory_df[k].total_avails - inventory_df[k].booked}
        future_non_sched == {k \in 1..Len(spots_df) :
                                /\ spots_df[k].air_date > TODAY_CUTOFF
                                /\ spots_df[k].status # "scheduled"}
        e1 == AppendIf(<< >>, 1, Cardinality(invalid_refs))
        e2 == AppendIf(e1, 2, Cardinality(out_of_range))
        e3 == AppendIf(e2, 3, Cardinality(station_mismatch))
        e4 == AppendIf(e3, 4, Cardinality(null_orders))
        e5 == AppendIf(e4, 5, Cardinality(neg_inv))
        e6 == AppendIf(e5, 6, Cardinality(inv_check))
    IN  AppendIf(e6, 7, Cardinality(future_non_sched))

\* variant: the checks stop at the first violation
validate_all_first(orders_df, spots_df, inventory_df) ==
    LET errs == validate_all_checks(orders_df, spots_df, inventory_df)
    IN  IF errs = << >> THEN errs ELSE <<errs[1]>>

validate_all(orders_df, spots_df, inventory_df) ==
    validate_all_checks(orders_df, spots_df, inventory_df)

\* main, step 6: "if errors: ... return False", else True
ValidateAll ==
    /\ pc = "validate_all"
    /\ errors' = validate_all(orders, spots, inventory)
    /\ valid' = (errors' = << >>)
    /\ pc' = "write"
    /\ UNCHANGED <<callVars, budget, orderVars, orders, spotVars, spots, inv_k, inventory,
                   written, exit_code>>

(* ------------------------------------------------------------------ *)
(* main: the steps after validation                                     *)
(* ------------------------------------------------------------------ *)

\* the three files of step 7
OutputFiles(orders_df, spots_df, inventory_df) ==
    { <<"orders.csv", orders_df>>, <<"spots.csv", spots_df>>,
      <<"inventory.csv", inventory_df>> }

\* variant: the tables are written only when validation passed
WriteCsv_only_valid ==
    /\ pc = "write"
    /\ written' = IF valid THEN OutputFiles(orders, spots, inventory)
                  ELSE written
    /\ pc' = "exit"
    /\ UNCHANGED <<callVars, budget, orderVars, orders, spotVars, spots, inv_k, inventory,
                   valid, errors, exit_code>>

\* step 7: the three to_csv calls (print_summary only reads the tables)
WriteCsv ==
    /\ pc = "write"
    /\ written' = OutputFiles(orders, spots, inventory)
    /\ pc' = "exit"
    /\ UNCHANGED <<callVars, budget, orderVars, orders, spotVars, spots, inv_k, inventory,
                   valid, errors, exit_code>>

\* "if not valid: sys.exit(1)", else sys.exit(0)
Exit ==
    /\ pc = "exit"
    /\ exit_code' = IF valid THEN 0 ELSE 1
    /\ pc' = "done"
    /\ UNCHANGED <<callVars, budget, orderVars, orders, spotVars, spots, inv_k, inventory,
                   valid, errors, written>>

Next ==
    \/ GenerateOrders_Advertiser
    \/ GenerateOrders_Order
    \/ GenerateOrders_Return
    \/ GenerateSpots_Order
    \/ GenerateSpots_Spot
    \/ GenerateSpots_Return
    \/ UpdateOrderTotals
    \/ GenerateInventory_Pair
    \/ GenerateInventory_Return
    \/ ValidateAll
    \/ WriteCsv
    \/ Exit

Spec == Init /\ [][Next]_vars

(* ------------------------------------------------------------------ *)
(* update_order_totals and validate_all on given tables                 *)
(* ------------------------------------------------------------------ *)

\* a row of orders_df: the k-th order, with a flight of days 0 to 2
OrderRow(k, station) ==
    [order_id |-> OrderId(1000 + k),
     advertiser_name |-> "Pacific Auto Group",
     agency_name |-> NONE,
     order_date |-> -1,
     start_date |-> 0,
     end_date |-> 2,
     order_total |-> 0,
     station |-> station]

\* a row of spots_df
SpotRow(order_id, air_date, status, station, rate) ==
    [spot_id |-> SpotId(100001),
     order_id |-> order_id,
     air_date |-> air_date,
     air_time |-> 1020,
     daypart |-> "EN",
     program |-> "Evening News at 5",
     length |-> 30,
     rate |-> rate,
     status |-> status,
     station |-> station]

\* the k-th row of a table gets the k-th spot_id
Numbered(rows) ==
    [k \in 1..Len(rows) |-> [rows[k] EXCEPT !.spot_id = SpotId(100000 + k)]]

\* a row of inventory_df
InventoryRow(total_avails, booked, remaining) ==
    [date |-> 0, daypart |-> "EN", station |-> "KHQ-TV",
     total_avails |-> total_avails, booked |-> booked, remaining |-> remaining]

SeqsUpTo(S, n) == UNION {[1..m -> S] : m \in 1..n}

\* tables for update_order_totals: one or two orders; up to three spots of
\* these orders, of no order of the table, or without an order_id
BackfillOrders ==
    {<<OrderRow(1, "KHQ-TV")>>, <<OrderRow(1, "KHQ-TV"), OrderRow(2, "KWYB-TV")>>}
BackfillSpots ==
    {Numbered(q) : q \in SeqsUpTo(
        {SpotRow(id, 0, "aired", "KHQ-TV", rate) :
            id \in {OrderId(1001), OrderId(1002), OrderId(1003), NULL_ID},
            rate \in {1500, 2550}}, 3)}

\* tables for validate_all: one order; one or two spots that may break the
\* checks on spots; one inventory row that may break the checks on inventory
ValidateOrders == {<<OrderRow(1, "KHQ-TV")>>}
ValidateSpots ==
    {Numbered(q) : q \in SeqsUpTo(
        {SpotRow(id, d, st, stn, 1500) :
            id \in {OrderId(1001), OrderId(1003), NULL_ID},
            d \in {-1, 0, 2, 3},
            st \in {"aired", "scheduled"},
            stn \in {"KHQ-TV", "KWYB-TV"}}, 2)}
ValidateInventory ==
    {<<InventoryRow(1, 1, 0)>>, <<InventoryRow(1, 2, -1)>>,
     <<InventoryRow(2, 1, 0)>>, <<InventoryRow(1, 1, -1)>>}

\* main has the tables in hand: generate_orders and generate_spots are over,
\* and update_order_totals too where main is about to validate
InitTables ==
    /\ budget = 0
    /\ adv_i = Len(generate_advertisers)
    /\ n_orders = 0
    /\ n_warmup = 0
    /\ agency = NONE
    /\ adv_stations = {}
    /\ i = 0
    /\ vol_mult = UNSET
    /\ n_spots = 0
    /\ daypart_assignments = << >>
    /\ spot_i = 0
    /\ valid = UNSET
    /\ errors = << >>
    /\ written = {}
    /\ exit_code = UNSET
    /\ call = NONE
    /\ result = NONE
    /\ \/ /\ pc = "update_order_totals"
          /\ orders \in BackfillOrders
          /\ spots \in BackfillSpots
          /\ inv_k = 0
          /\ inventory = << >>
       \/ /\ pc = "validate_all"
          /\ spots \in ValidateSpots
          /\ orders \in {update_order_totals(o, spots) : o \in ValidateOrders}
          /\ inv_k = n_pairs
          /\ inventory \in ValidateInventory
    /\ ord_i = Len(orders)
    /\ order_counter = 1000 + Len(orders)
    /\ spot_counter = 100000 + Len(spots)

NextTables ==
    \/ UpdateOrderTotals
    \/ GenerateInventory_Pair
    \/ GenerateInventory_Return
    \/ ValidateAll
    \/ WriteCsv
    \/ Exit

SpecTables == InitTables /\ [][NextTables]_vars

(* ------------------------------------------------------------------ *)
(* generate_spots on an orders table given                              *)
(* ------------------------------------------------------------------ *)

\* a row of orders_df with a flight given
FlightRow(k, start_date, end_date) ==
    [OrderRow(k, "KHQ-TV") EXCEPT !.start_date = start_date,
                                  !.end_date = end_date,
                                  !.order_date = start_date - 1]

\* flights before the main range, after it, across its start and inside it
GivenFlights ==
    { <<WARMUP_START, DATE_START - 1>>, <<DATE_END + 1, DATE_END + 2>>,
      <<DATE_START - 1, DATE_START + 1>>, <<DATE_START, DATE_START + 1>> }

\* orders tables of one or two rows
GivenOrders ==
    { <<FlightRow(1, f[1], f[2])>> : f \in GivenFlights } \cup
    { <<FlightRow(1, f[1], f[2]), FlightRow(2, g[1], g[2])>> :
          f \in GivenFlights, g \in GivenFlights }

\* generate_spots is called on a table that generate_orders did not produce:
\* the variables of generate_orders are as at the start
InitOrders ==
    /\ pc = "generate_spots"
    /\ budget = DRAW_BUDGET
    /\ adv_i = 0
    /\ n_orders = 0
    /\ n_warmup = 0
    /\ agency = NONE
    /\ adv_stations = {}
    /\ i = 0
    /\ order_counter = 1000
    /\ orders \in GivenOrders
    /\ ord_i = 0
    /\ vol_mult = UNSET
    /\ n_spots = 0
    /\ daypart_assignments = << >>
    /\ spot_i = 0
    /\ spot_counter = 100000
    /\ spots = << >>
    /\ inv_k = 0
    /\ inventory = << >>
    /\ valid = UNSET
    /\ errors = << >>
    /\ written = {}
    /\ exit_code = UNSET
    /\ call = NONE
    /\ result = NONE

\* main, or generate_spots and the steps after it on an orders table given
InitMainOrOrders == Init \/ InitOrders

SpecOrders == InitMainOrOrders /\ [][Next]_vars

(* ------------------------------------------------------------------ *)
(* The functions of generate_spots, called on their own                 *)
(* ------------------------------------------------------------------ *)

\* nothing has been called yet
InitCalls ==
    /\ pc = "call"
    /\ budget = 0
    /\ adv_i = 0
    /\ n_orders = 0
    /\ n_warmup = 0
    /\ agency = NONE
    /\ adv_stations = {}
    /\ i = 0
    /\ order_counter = 1000
    /\ orders = << >>
    /\ ord_i = 0
    /\ vol_mult = UNSET
    /\ n_spots = 0
    /\ daypart_assignments = << >>
    /\ spot_i = 0
    /\ spot_counter = 100000
    /\ spots = << >>
    /\ inv_k = 0
    /\ inventory = << >>
    /\ valid = UNSET
    /\ errors = << >>
    /\ written = {}
    /\ exit_code = UNSET
    /\ call = NONE
    /\ result = NONE

\* what a call leaves alone
CallFrame == <<budget, orderVars, orders, spotVars, spots, inv_k, inventory,
               mainVars>>

\* the weights generate_spots passes to rng.choice for the dayparts
Call_daypart_weights ==
    /\ pc = "call"
    /\ \E dp \in Vals(ALL_DAYPARTS) :
           /\ call' = [fn |-> "daypart_weights", daypart |-> dp]
           /\ result' = daypart_weights(dp)
    /\ pc' = "return"
    /\ UNCHANGED CallFrame

\* rng.random(), in units of 1/100000: the values at and next to the bounds
\* of the status bands
STATUS_ROLLS ==
    <<0, 1499, 1500, 1999, 2000, 2249, 2250, 3499, 3500, 3599, 3600, 4999, 5000,
      5849, 5850, 6299, 6300, 8549, 8550, 50000, 99999>>

\* _determine_status(air_date, daypart, station, high_preempt_station, rng);
\* roll is the value the generator returns to its next call
Call_determine_status ==
    /\ pc = "call"
    /\ \E air_date \in (TODAY_CUTOFF - 1)..DATE_END :
       \E dp \in Vals(ALL_DAYPARTS) :
       \E station \in Vals(ALL_STATIONS) :
       \E roll \in Vals(STATUS_ROLLS) :
           /\ call' = [fn |-> "determine_status", air_date |-> air_date,
                       daypart |-> dp, station |-> station, roll |-> roll]
           /\ result' = [status |-> determine_status(air_date, dp, station, roll),
                         draws |-> determine_status_draws(air_date)]
    /\ pc' = "return"
    /\ UNCHANGED CallFrame

\* the air dates of the script's main range, one day of every month from
\* January 2024 to March 2025
RATE_DATES == {DATE_START + DAYS_PER_MONTH * k : k \in -11..3}

\* rng.normal(1.0, 0.08), in twentieths: values inside the clamp, at its
\* bounds and outside it
RATE_NOISE == <<10, 16, 17, 18, 20, 22, 23, 24, 30>>

\* calculate_spot_rate(station, daypart, length, air_date, rng); noise is
\* the value the generator returns to its next call
Call_calculate_spot_rate ==
    /\ pc = "call"
    /\ \E station \in Vals(ALL_STATIONS) :
       \E dp \in Vals(ALL_DAYPARTS) :
       \E length \in Vals(SPOT_LENGTHS) :
       \E air_date \in RATE_DATES :
       \E noise \in Vals(RATE_NOISE) :
           /\ call' = [fn |-> "calculate_spot_rate", station |-> station,
                       daypart |-> dp, length |-> length, air_date |-> air_date,
                       noise |-> noise]
           /\ result' = calculate_spot_rate(station, dp, length, air_date, noise)
    /\ pc' = "return"
    /\ UNCHANGED CallFrame

\* _random_time_in_daypart(start, end, rng) for the window of a daypart;
\* rand_mins is the value the generator returns to its next call
Call_random_time_in_daypart ==
    /\ pc = "call"
    /\ \E dp \in Vals(ALL_DAYPARTS) :
       \E rand_mins \in Vals(integers(daypart_minutes(dp)[1],
                                      daypart_minutes(dp)[2])) :
           /\ call' = [fn |-> "random_time_in_daypart", daypart |-> dp,
                       rand_mins |-> rand_mins]
           /\ result' = random_time_in_daypart(rand_mins)
    /\ pc' = "return"
    /\ UNCHANGED CallFrame

\* rng.integers(26, 40) ... rng.integers(2, 5): the order counts of the
\* script, by tier
n_orders_script(tier) ==
    CASE tier = 1 -> integers(26, 40)
      [] tier = 2 -> integers(14, 24)
      [] tier = 3 -> integers(8, 16)
      [] tier = 4 -> integers(4, 10)
      [] tier = 5 -> integers(2, 5)

\* n_warmup = max(1, int(n_orders * 0.18)) for an order count of a tier
Call_n_warmup ==
    /\ pc = "call"
    /\ \E tier \in 1..5 :
       \E n \in Vals(n_orders_script(tier)) :
           /\ call' = [fn |-> "n_warmup", tier |-> tier, n_orders |-> n]
           /\ result' = NWarmup(n)
    /\ pc' = "return"
    /\ UNCHANGED CallFrame

\* local_weights = np.array([0.10, 0.25, 0.25, 0.20, 0.20]), in hundredths:
\* the weight of a station of station_list = list(STATIONS.keys())
local_weights(s) ==
    CASE s = ALL_STATIONS[1] -> 10
      [] s = ALL_STATIONS[2] -> 25
      [] s = ALL_STATIONS[3] -> 25
      [] s = ALL_STATIONS[4] -> 20
      [] s = ALL_STATIONS[5] -> 20

\* the weight rng.choice(station_list, ..., p=local_weights) gives a station
\* for a local advertiser
Call_local_weights ==
    /\ pc = "call"
    /\ \E station \in Vals(ALL_STATIONS) :
           /\ call' = [fn |-> "local_weights", station |-> station]
           /\ result' = local_weights(station)
    /\ pc' = "return"
    /\ UNCHANGED CallFrame

\* the list of rng.choice([1, 2, 4, 4, 8, 8, 13, 13, 13]); every position is
\* as likely as every other
flight_weeks_choices == <<1, 2, 4, 4, 8, 8, 13, 13, 13>>

\* flight_weeks = int(rng.choice([...])); k is the position the generator
\* picks
Call_flight_weeks ==
    /\ pc = "call"
    /\ \E k \in 1..Len(flight_weeks_choices) :
           /\ call' = [fn |-> "flight_weeks", position |-> k]
           /\ result' = flight_weeks_choices[k]
    /\ pc' = "return"
    /\ UNCHANGED CallFrame

NextCalls ==
    \/ Call_daypart_weights
    \/ Call_determine_status
    \/ Call_calculate_spot_rate
    \/ Call_random_time_in_daypart
    \/ Call_n_warmup
    \/ Call_local_weights
    \/ Call_flight_weeks

SpecCalls == InitCalls /\ [][NextCalls]_vars

(* ------------------------------------------------------------------ *)
(* Properties of the generated spots                                    *)
(* ------------------------------------------------------------------ *)

\* the rows of the orders table a spot row refers to
Owners(spot) == {j \in 1..Len(orders) : orders[j].order_id = spot.order_id}

\* generate_spots has returned
SpotsDone == pc \notin {"generate_orders", "generate_spots"}

\* C2: every spot generated has an order_id that is not missing and that is
\* the order_id of an order of the orders table.
ReferentialIntegrity ==
    \A k \in 1..Len(spots) :
        /\ spots[k].order_id # NULL_ID
        /\ Owners(spots[k]) # {}

\* generate_spots has returned spots of an order that follows a dropped
\* warm-up order, so that order ids and row positions differ
ReferentialIntegrityWitness ==
    /\ SpotsDone
    /\ \E k \in 1..Len(spots) : \E j \in Owners(spots[k]) :
           orders[j].order_id # OrderId(1000 + j)

\* C3: the air_date of every spot generated lies in the flight of its order,
\* start_date <= air_date <= end_date, warm-up orders included.
FlightContainment ==
    \A k \in 1..Len(spots) : \A j \in Owners(spots[k]) :
        /\ orders[j].start_date <= spots[k].air_date
        /\ spots[k].air_date <= orders[j].end_date

\* a warm-up order that starts before the main range has a spot, and the
\* spot is not on the first day of the main range
FlightContainmentWitness ==
    /\ SpotsDone
    /\ \E k \in 1..Len(spots) : \E j \in Owners(spots[k]) :
           /\ orders[j].start_date < DATE_START
           /\ spots[k].air_date > DATE_START

\* C7: every spot generated whose air_date is after TODAY_CUTOFF has the
\* status "scheduled".
FutureScheduled ==
    \A k \in 1..Len(spots) :
        spots[k].air_date > TODAY_CUTOFF => spots[k].status = "scheduled"

\* generate_spots has returned a spot after the cutoff and a spot on or
\* before the cutoff that is not scheduled
FutureScheduledWitness ==
    /\ SpotsDone
    /\ \E k \in 1..Len(spots) : spots[k].air_date > TODAY_CUTOFF
    /\ \E k \in 1..Len(spots) :
           spots[k].air_date <= TODAY_CUTOFF /\ spots[k].status # "scheduled"

\* C8: every spot generated has the station of its order.
StationConsistency ==
    \A k \in 1..Len(spots) : \A j \in Owners(spots[k]) :
        spots[k].station = orders[j].station

\* generate_spots has returned spots of orders of two stations
StationConsistencyWitness ==
    /\ SpotsDone
    /\ \E k, m \in 1..Len(spots) : spots[k].station # spots[m].station

(* ------------------------------------------------------------------ *)
(* Properties of the generated inventory                                *)
(* ------------------------------------------------------------------ *)

\* generate_inventory has returned
InventoryDone == pc \in {"validate_all", "write", "exit", "done"}

\* C4: every inventory row generated has booked <= total_avails,
\* remaining >= 0 and remaining = total_avails - booked.
InventoryExact ==
    \A k \in 1..Len(inventory) :
        /\ inventory[k].booked <= inventory[k].total_avails
        /\ inventory[k].remaining >= 0
        /\ inventory[k].remaining = inventory[k].total_avails - inventory[k].booked

\* the inventory generated from generated spots has a day that is booked
\* and sold out and a day that is booked and has avails left
InventoryExactWitness ==
    /\ InventoryDone
    /\ Len(spots) > 0
    /\ \E k \in 1..Len(inventory) :
           inventory[k].booked > 0 /\ inventory[k].remaining = 0
    /\ \E k \in 1..Len(inventory) :
           inventory[k].booked > 0 /\ inventory[k].remaining > 0

\* the number of spots of a (station, daypart) pair
SpotsOfPair(station, dp) ==
    Cardinality({k \in 1..Len(spots) :
        spots[k].station = station /\ spots[k].daypart = dp})

\* the sum of total_avails over the inventory rows of a pair
AvailsOfPair(station, dp) ==
    SumSeq([k \in 1..Len(inventory) |->
        IF inventory[k].station = station /\ inventory[k].daypart = dp
        THEN inventory[k].total_avails ELSE 0])

\* x is round(total_booked / target_sellout): the nearest integer, the even
\* one of the two when both are as near
IsRounded(x, total_booked, dp) ==
    LET so == SELLOUT_TARGETS(dp)
        diff == 100 * total_booked - so * x
        dist == IF diff < 0 THEN 0 - diff ELSE diff
    IN  /\ 2 * dist <= so
        /\ 2 * dist = so => x % 2 = 0

\* C5: once generate_inventory has handled a (station, daypart) pair, the sum
\* of total_avails of the pair over all dates is round(total_booked /
\* target_sellout) if the pair has a spot and the number of days of the main
\* range if it has none.
AvailsTotalExact ==
    \A k \in 1..inv_k :
        LET station == PairStation(k)
            dp == PairDaypart(k)
            total_booked == SpotsOfPair(station, dp)
            total == AvailsOfPair(station, dp)
        IN  IF total_booked > 0
            THEN IsRounded(total, total_booked, dp)
            ELSE total = DATE_END - DATE_START + 1

\* the inventory has a pair without a spot and a pair whose total is larger
\* than its booked count by less than the number of days, so that the top-up
\* truncated to nothing on some day
AvailsTotalExactWitness ==
    /\ InventoryDone
    /\ \E k \in 1..n_pairs : SpotsOfPair(PairStation(k), PairDaypart(k)) = 0
    /\ \E k \in 1..n_pairs :
           LET total_booked == SpotsOfPair(PairStation(k), PairDaypart(k))
               total == AvailsOfPair(PairStation(k), PairDaypart(k))
           IN  /\ total_booked > 0
               /\ total > total_booked
               /\ total - total_booked < DATE_END - DATE_START + 1

\* the keys an inventory must have
InventoryKeys == Vals(STATIONS) \X Vals(DAYPARTS) \X (DATE_START..DATE_END)

RowKey(row) == <<row.station, row.daypart, row.date>>

\* C9: the inventory generate_inventory returns has exactly one row for each
\* (station, daypart, date) of the configured stations and dayparts and of
\* the dates DATE_START..DATE_END, no other row, and so stations x dayparts x
\* days rows; no key is twice in the rows at any point of the generation.
InventoryComplete ==
    /\ \A k, m \in 1..Len(inventory) :
           RowKey(inventory[k]) = RowKey(inventory[m]) => k = m
    /\ \A k \in 1..Len(inventory) : RowKey(inventory[k]) \in InventoryKeys
    /\ InventoryDone =>
           /\ \A key \in InventoryKeys :
                  \E k \in 1..Len(inventory) : RowKey(inventory[k]) = key
           /\ Len(inventory) =
                  Len(STATIONS) * Len(DAYPARTS) * (DATE_END - DATE_START + 1)

\* generate_inventory has returned the inventory of a spot table with spots
\* of two (station, daypart) pairs and with two spots of one key
InventoryCompleteWitness ==
    /\ InventoryDone
    /\ Len(inventory) > 0
    /\ \E k, m \in 1..Len(spots) :
           spots[k].station # spots[m].station \/ spots[k].daypart # spots[m].daypart
    /\ \E k \in 1..Len(inventory) : inventory[k].booked >= 2

(* ------------------------------------------------------------------ *)
(* Properties of update_order_totals and validate_all                   *)
(* ------------------------------------------------------------------ *)

\* update_order_totals has returned
TotalsDone == pc \in {"generate_inventory", "validate_all", "write", "exit", "done"}

\* the sum of the rates of the spots whose order_id is order_id
RatesOf(order_id) ==
    SumSeq([k \in 1..Len(spots) |->
        IF spots[k].order_id = order_id THEN spots[k].rate ELSE 0])

\* C6: after update_order_totals the order_total of every order is the sum of
\* the rates of the spots with its order_id, 0 for an order without spots,
\* and update_order_totals applied again with the same spots returns the
\* orders as they are.
OrderTotalBackfill ==
    TotalsDone =>
        /\ \A j \in 1..Len(orders) :
               /\ orders[j].order_total = RatesOf(orders[j].order_id)
               /\ (\A k \in 1..Len(spots) :
                       spots[k].order_id # orders[j].order_id)
                  => orders[j].order_total = 0
        /\ update_order_totals(orders, spots) = orders

\* update_order_totals has just returned: one order has no spot, another has
\* spots of two rates, and a spot has no order in the table
OrderTotalBackfillWitness ==
    /\ pc = "generate_inventory"
    /\ \E j \in 1..Len(orders) :
           \A k \in 1..Len(spots) : spots[k].order_id # orders[j].order_id
    /\ \E j \in 1..Len(orders) : \E k, m \in 1..Len(spots) :
           /\ spots[k].order_id = orders[j].order_id
           /\ spots[m].order_id = orders[j].order_id
           /\ spots[k].rate # spots[m].rate
    /\ \E k \in 1..Len(spots) : Owners(spots[k]) = {}

\* the seven checks, each by itself: TRUE if the tables violate it
CheckFails(n) ==
    CASE n = 1 -> \E k \in 1..Len(spots) : Owners(spots[k]) = {}
      [] n = 2 -> \E k \in 1..Len(spots) : \E j \in Owners(spots[k]) :
                      \/ spots[k].air_date < orders[j].start_date
                      \/ spots[k].air_date > orders[j].end_date
      [] n = 3 -> \E k \in 1..Len(spots) : \E j \in Owners(spots[k]) :
                      spots[k].station # orders[j].station
      [] n = 4 -> \E k \in 1..Len(spots) : spots[k].order_id = NULL_ID
      [] n = 5 -> \E k \in 1..Len(inventory) : inventory[k].remaining < 0
      [] n = 6 -> \E k \in 1..Len(inventory) :
                      inventory[k].remaining + inventory[k].booked
                          # inventory[k].total_avails
      [] n = 7 -> \E k \in 1..Len(spots) :
                      /\ spots[k].air_date > TODAY_CUTOFF
                      /\ spots[k].status # "scheduled"

FailingChecks == {n \in 1..7 : CheckFails(n)}

\* validate_all has returned
ValidateDone == pc \in {"write", "exit", "done"}

\* C10: for the tables at hand validate_all reports exactly one violation for
\* every one of the seven checks that fails, whichever checks fail before it,
\* and returns pass exactly when none of the seven fails.
ValidatorVerdict ==
    ValidateDone =>
        /\ {errors[k].check : k \in 1..Len(errors)} = FailingChecks
        /\ Len(errors) = Cardinality(FailingChecks)
        /\ valid = (FailingChecks = {})

\* validate_all has returned with several violations, the first of which is
\* not of the first check, and with checks that pass
ValidatorVerdictWitness ==
    /\ ValidateDone
    /\ valid = FALSE
    /\ Len(errors) >= 3
    /\ Len(errors) < 7
    /\ errors[1].check # 1

(* ------------------------------------------------------------------ *)
(* Properties of main                                                   *)
(* ------------------------------------------------------------------ *)

\* the stages of main, in the order of its statements
StageOf(p) ==
    CASE p = "generate_orders" -> 1
      [] p = "generate_spots" -> 2
      [] p = "update_order_totals" -> 3
      [] p = "generate_inventory" -> 4
      [] p = "validate_all" -> 5
      [] p = "write" -> 6
      [] p = "exit" -> 7
      [] p = "done" -> 8

\* what the generation stages and the validation produced
Generated == <<orders, spots, inventory, orderVars, spotVars, inv_k, budget,
               valid, errors>>

\* C11: the three tables are written after validation, the validated tables
\* themselves, whether validation passed or failed; the exit status is the
\* failure status (1) exactly when validation failed and the success status
\* (0) otherwise; and once validation has returned no stage before it runs
\* again and nothing it produced or judged changes.
ValidationReported ==
    /\ [](/\ IF pc \in {"exit", "done"}
             THEN /\ valid \in BOOLEAN
                  /\ written = { <<"orders.csv", orders>>,
                                  <<"spots.csv", spots>>,
                                  <<"inventory.csv", inventory>> }
             ELSE written = {}
          /\ IF pc = "done"
             THEN /\ exit_code \in {0, 1}
                  /\ (exit_code = 1) <=> (valid = FALSE)
             ELSE exit_code = UNSET)
    /\ [][ValidateDone => /\ StageOf(pc') = StageOf(pc) + 1
                          /\ UNCHANGED Generated]_vars

\* main has ended with the failure status after a validation that failed,
\* and the tables were written
ValidationReportedWitness ==
    /\ pc = "done"
    /\ valid = FALSE
    /\ exit_code = 1
    /\ \E f \in written : f[1] = "spots.csv" /\ Len(f[2]) >= 1

\* the rows of a table without the column order_total
WithoutTotal(orders_df) ==
    [k \in 1..Len(orders_df) |-> [orders_df[k] EXCEPT !.order_total = 0]]

\* C12: the stages run strictly in the order order generation, spot
\* generation, backfill, inventory, validation, persistence, each one
\* completing before the next starts.  The order_total of every order is 0
\* from its creation until the backfill; the orders table changes only by
\* rows appended during order generation and by the one backfill step, which
\* follows spot generation, keeps every row and changes order_total alone;
\* the spots table changes only during spot generation; and the orders that
\* are validated and written carry the backfilled totals.
PipelineOrder ==
    /\ [](/\ pc \in {"generate_orders", "generate_spots", "update_order_totals"}
                => \A j \in 1..Len(orders) : orders[j].order_total = 0
          /\ pc \in {"generate_orders", "generate_spots", "update_order_totals",
                     "generate_inventory"} => valid = UNSET
          /\ pc # "generate_inventory" => inv_k \in {0, n_pairs}
          /\ pc \in {"validate_all", "write", "exit", "done"}
                => \A j \in 1..Len(orders) :
                       orders[j].order_total = RatesOf(orders[j].order_id)
          /\ pc \in {"exit", "done"} => <<"orders.csv", orders>> \in written)
    /\ [][/\ StageOf(pc') \in {StageOf(pc), StageOf(pc) + 1}
          /\ orders' # orders =>
                \/ /\ pc = "generate_orders"
                   /\ pc' = "generate_orders"
                   /\ Len(orders') = Len(orders) + 1
                   /\ SubSeq(orders', 1, Len(orders)) = orders
                \/ /\ pc = "update_order_totals"
                   /\ pc' = "generate_inventory"
                   /\ WithoutTotal(orders') = WithoutTotal(orders)
          /\ spots' # spots => pc = "generate_spots" /\ pc' = "generate_spots"
          /\ inventory' # inventory =>
                pc = "generate_inventory" /\ pc' = "generate_inventory"
         ]_vars

\* main has ended: two orders were generated, validated and written, each
\* with a total that is not 0
PipelineOrderWitness ==
    /\ pc = "done"
    /\ Len(orders) >= 2
    /\ \A j \in 1..Len(orders) : orders[j].order_total > 0
    /\ <<"orders.csv", orders>> \in written

(* ------------------------------------------------------------------ *)
(* Properties of the generated orders                                   *)
(* ------------------------------------------------------------------ *)

\* the advertiser whose orders generate_orders is generating
CurrentAdvertiser == generate_advertisers[adv_i]

EmptyClip(order) ==
    Max(order.start_date, DATE_START) > Min(order.end_date, DATE_END)

\* generate_orders has produced the orders table at hand
OrdersGenerated == adv_i > 0

\* C14: no order whose flight clipped to the main range is empty is in the
\* orders table generate_orders produces; no spot refers to such an order;
\* and for an order passed to generate_spots whose clipped flight is empty
\* generate_spots produces no spot.
EmptyFlightDropped ==
    /\ OrdersGenerated => \A j \in 1..Len(orders) : ~EmptyClip(orders[j])
    /\ \A k \in 1..Len(spots) : \A j \in Owners(spots[k]) : ~EmptyClip(orders[j])
    /\ (pc = "generate_spots" /\ ord_i >= 1 /\ EmptyClip(orders[ord_i]))
           => n_spots = 0

\* generate_spots has returned spots of an order and none of an order that
\* was passed to it with a flight that ends before the main range starts
EmptyFlightDroppedWitness ==
    /\ pc = "update_order_totals"
    /\ ~OrdersGenerated
    /\ \E j \in 1..Len(orders) :
           /\ orders[j].end_date < DATE_START
           /\ \A k \in 1..Len(spots) : spots[k].order_id # orders[j].order_id
    /\ \E j \in 1..Len(orders) : \E k \in 1..Len(spots) :
           /\ orders[j].start_date < DATE_START
           /\ spots[k].order_id = orders[j].order_id

\* C15: no two orders have the same order_id and no two spots the same
\* spot_id, also where warm-up orders were dropped: the ids are numbered by
\* counters that only grow, so a number passed over for a dropped order is
\* not given to a later one.
UniqueIds ==
    /\ \A j, k \in 1..Len(orders) :
           j < k => /\ orders[j].order_id # orders[k].order_id
                    /\ orders[j].order_id[2] < orders[k].order_id[2]
    /\ \A j \in 1..Len(orders) :
           /\ orders[j].order_id[1] = "WO"
           /\ OrdersGenerated => orders[j].order_id[2] <= order_counter
    /\ \A j, k \in 1..Len(spots) :
           j < k => /\ spots[j].spot_id # spots[k].spot_id
                    /\ spots[j].spot_id[2] < spots[k].spot_id[2]
    /\ \A j \in 1..Len(spots) :
           /\ spots[j].spot_id[1] = "SP"
           /\ spots[j].spot_id[2] <= spot_counter

\* a warm-up order was dropped and orders follow it, so that a number of the
\* counter is passed over; several spots were generated
UniqueIdsWitness ==
    /\ SpotsDone
    /\ Len(spots) >= 2
    /\ \E j \in 1..Len(orders) :
           /\ orders[j].order_id[2] > 1000 + j
           /\ j < Len(orders)
    /\ order_counter > 1000 + Len(orders)

\* the middle day of the clipped flight of an order: the lower and the upper
\* one where the flight has an even number of days
ClippedMidLow(order) ==
    Max(order.start_date, DATE_START)
        + (Min(order.end_date, DATE_END) - Max(order.start_date, DATE_START)) \div 2
ClippedMidHigh(order) ==
    Max(order.start_date, DATE_START)
        + (Min(order.end_date, DATE_END) - Max(order.start_date, DATE_START) + 1) \div 2

\* C18: the seasonal volume multiplier applied to the spot count of an order
\* is the multiplier of the month that contains the midpoint of the order's
\* flight as clipped to the main range, also for a warm-up order that
\* starts before DATE_START.
SeasonalVolumeKeying ==
    (pc = "generate_spots" /\ ord_i >= 1 /\ ~EmptyClip(orders[ord_i])) =>
        vol_mult \in {seasonal_volume_multiplier(ClippedMidLow(orders[ord_i])),
                      seasonal_volume_multiplier(ClippedMidHigh(orders[ord_i]))}

(* ------------------------------------------------------------------ *)
(* Properties of the functions called on their own                      *)
(* ------------------------------------------------------------------ *)

\* a call of fn has returned
Returned(fn) == pc = "return" /\ call.fn = fn

\* the least common multiple of the rate multipliers (in twentieths) of the
\* eight dayparts
RECURSIVE MultLcm(_)
MultLcm(dps) ==
    IF dps = << >> THEN 1
    ELSE LET rest == MultLcm(Tail(dps))
             m == BaseAurMult(Head(dps))
         IN  (rest \div GCD(rest, m)) * m

\* revenue share over rate multiplier of a daypart, as a whole number: the
\* share in thousandths times MultLcm over the multiplier
ShareOverMult(dp) == RevenueShare(dp) * (MultLcm(ALL_DAYPARTS) \div BaseAurMult(dp))

\* the sums over the dayparts of a list: of the revenue shares, of the
\* shares over multipliers, of the volume weights
RECURSIVE SumRevenueShare(_)
SumRevenueShare(dps) ==
    IF dps = << >> THEN 0 ELSE RevenueShare(Head(dps)) + SumRevenueShare(Tail(dps))

RECURSIVE SumShareOverMult(_)
SumShareOverMult(dps) ==
    IF dps = << >> THEN 0 ELSE ShareOverMult(Head(dps)) + SumShareOverMult(Tail(dps))

RECURSIVE SumVolumeWeights(_)
SumVolumeWeights(dps) ==
    IF dps = << >> THEN <<0, 1>>
    ELSE FracAdd(DAYPART_VOLUME_WEIGHTS(Head(dps)), SumVolumeWeights(Tail(dps)))

\* volume weight times rate multiplier of a daypart, and its sum over the
\* dayparts of a list
WeightTimesMult(dp) == FracMul(DAYPART_VOLUME_WEIGHTS(dp), Frac(BaseAurMult(dp), 20))

RECURSIVE SumWeightTimesMult(_)
SumWeightTimesMult(dps) ==
    IF dps = << >> THEN <<0, 1>>
    ELSE FracAdd(WeightTimesMult(Head(dps)), SumWeightTimesMult(Tail(dps)))

\* C16: the revenue shares of the eight dayparts sum to 1; the volume
\* weights are positive, sum to 1, and each is (revenue_share /
\* rate_multiplier) over the sum of that quotient over the eight dayparts;
\* volume weight times rate multiplier, normalised over the eight dayparts,
\* is the revenue share of the daypart; and the weight generate_spots
\* passes to the draw of a daypart is this volume weight.
VolumeWeights ==
    Returned("daypart_weights") =>
        LET dp == call.daypart IN
        /\ SumRevenueShare(ALL_DAYPARTS) = 1000
        /\ SumVolumeWeights(ALL_DAYPARTS) = <<1, 1>>
        /\ DAYPART_VOLUME_WEIGHTS(dp)[1] > 0
        /\ DAYPART_VOLUME_WEIGHTS(dp)[2] > 0
        /\ DAYPART_VOLUME_WEIGHTS(dp) =
               Frac(ShareOverMult(dp), SumShareOverMult(ALL_DAYPARTS))
        /\ FracDiv(WeightTimesMult(dp), SumWeightTimesMult(ALL_DAYPARTS))
               = Frac(RevenueShare(dp), 1000)
        /\ result = Frac(ShareOverMult(dp), SumShareOverMult(ALL_DAYPARTS))
        /\ result[1] > 0
        /\ result[2] > 0

\* the weight of the prime daypart was asked for: it is not its revenue share
VolumeWeightsWitness ==
    /\ Returned("daypart_weights")
    /\ call.daypart = "PR"
    /\ result # Frac(RevenueShare("PR"), 1000)

\* the chance of a pre-emption and of a make-good, in units of 1/100000:
\* 2.0% (3.5% in the dayparts EN and LN) and 1.5%, times 1.8 and times 1.5
\* at the high-preempt station
PreemptChance(daypart, station) ==
    ((IF daypart \in {"EN", "LN"} THEN 3500 ELSE 2000)
        * (IF station = high_preempt_station THEN 18 ELSE 10)) \div 10
MakegoodChance(station) ==
    (1500 * (IF station = high_preempt_station THEN 15 ELSE 10)) \div 10

DeterministicRate ==
    PrimeMid(call.station) * BaseAurMult(call.daypart)
        * SPOT_LENGTH_RATE_MULT(call.length)
        * (CASE MonthOf(call.air_date) \in {10, 11, 12} -> 23
             [] MonthOf(call.air_date) \in {1, 2, 3} -> 18
             [] MonthOf(call.air_date) \in {7, 8} -> 19
             [] OTHER -> 20)
        * (IF YearOf(call.air_date) = 2025
           THEN 100 + YOY_GROWTH(call.daypart) ELSE 100)

LastPassAppended ==
    /\ pc = "generate_orders"
    /\ i >= 1
    /\ Len(orders) >= 1
    /\ orders[Len(orders)].order_id = OrderId(order_counter)

\* the order is a warm-up order: it starts in the warm-up window, before
\* DATE_START, and ends in the primary range
WarmupFlight(order) ==
    /\ WARMUP_START <= order.start_date
    /\ order.start_date < DATE_START
    /\ order.end_date >= DATE_START

\* the order is a regular order: it starts in the primary range and its
\* flight is a whole number of weeks drawn, none of them cut
RegularFlight(order) ==
    /\ order.start_date >= DATE_START
    /\ order.end_date <= DATE_END
    /\ \E k \in 1..Len(FLIGHT_WEEKS) :
           order.end_date = order.start_date + FLIGHT_WEEKS[k] * DAYS_PER_WEEK - 1

\* C21: every order of generate_orders is either a warm-up order, with
\* start_date from WARMUP_START up to the day before DATE_START and
\* end_date >= DATE_START, or a regular order, with start_date >= DATE_START
\* and end_date = start_date + 7 * weeks - 1 <= DATE_END; the order of a
\* warm-up pass is of the first kind and the order of a regular pass of the
\* second, and a regular pass always appends its order.
FlightWindows ==
    /\ \A k \in 1..Len(orders) :
           WarmupFlight(orders[k]) \/ RegularFlight(orders[k])
    /\ (LastPassAppended /\ i - 1 < n_warmup)
           => WarmupFlight(orders[Len(orders)])
    /\ (pc = "generate_orders" /\ i >= 1 /\ i - 1 >= n_warmup)
           => (LastPassAppended /\ RegularFlight(orders[Len(orders)]))

\* a regular pass has appended an order whose flight reaches DATE_END, after
\* a warm-up pass of the same advertiser that was kept
FlightWindowsWitness ==
    /\ LastPassAppended
    /\ i - 1 >= n_warmup
    /\ orders[Len(orders)].end_date = DATE_END
    /\ Len(orders) >= 2
    /\ WarmupFlight(orders[Len(orders) - 1])
    /\ orders[Len(orders) - 1].advertiser_name
           = orders[Len(orders)].advertiser_name

\* C22 (as stated): for an order count n_orders drawn for a tier, the number
\* of warm-up orders is 18% of n_orders rounded down.
WarmupFraction ==
    Returned("n_warmup") => result = (call.n_orders * 18) \div 100

\* the chances of a flight length: the number of positions of the list
\* that hold it
FlightChance(weeks) ==
    Cardinality({k \in 1..Len(flight_weeks_choices) :
        flight_weeks_choices[k] = weeks})

\* C24 (as stated): among the stations a local advertiser draws from, a
\* station of a larger market size never has a smaller selection weight
\* than a station of a smaller market size.
LocalWeightsBySize ==
    Returned("local_weights") =>
        \A t \in Vals(ALL_STATIONS) :
            StationSize(call.station) > StationSize(t)
                => result >= local_weights(t)

\* C25 (as stated): the flight length drawn is one of 1, 2, 4, 8 and 13
\* weeks, and neither 1 week nor 13 weeks is more likely than 4 weeks or
\* than 8 weeks.
FlightLengthWeights ==
    Returned("flight_weeks") =>
        /\ result \in {1, 2, 4, 8, 13}
        /\ result \in {1, 13} =>
               /\ FlightChance(result) <= FlightChance(4)
               /\ FlightChance(result) <= FlightChance(8)

\* the longest lead rng.integers(1, 31) can return (30 days in the script)
MaxLead == LEAD_DAYS[Len(LEAD_DAYS)]

\* C23: every order has order_date strictly before start_date and at most
\* the longest lead (30 days) before it; the floor on order_date never
\* brings order_date to start_date or after it.
LeadTime ==
    \A k \in 1..Len(orders) :
        /\ orders[k].order_date < orders[k].start_date
        /\ orders[k].start_date - orders[k].order_date <= MaxLead
        /\ orders[k].start_date - orders[k].order_date >= 1
        /\ orders[k].order_date >= ORDER_DATE_FLOOR

\* a warm-up order was placed with the longest lead, and a regular order of
\* the table with a shorter one
LeadTimeWitness ==
    /\ \E k \in 1..Len(orders) :
           /\ orders[k].start_date < DATE_START
           /\ orders[k].start_date - orders[k].order_date = MaxLead
    /\ \E k \in 1..Len(orders) :
           /\ orders[k].start_date >= DATE_START
           /\ orders[k].start_date - orders[k].order_date < MaxLead

\* the type of the advertiser of a name
TypeOfName(adv_name) ==
    LET k == CHOOSE k \in 1..Len(generate_advertisers) :
                 generate_advertisers[k].name = adv_name
    IN  generate_advertisers[k].type

\* C26: all orders of one advertiser carry the same agency_name; for a
\* national advertiser it is one of the configured agencies, never null;
\* for a local advertiser it is one of the configured agencies or null.
AgencyPerAdvertiser ==
    /\ \A j, k \in 1..Len(orders) :
           orders[j].advertiser_name = orders[k].advertiser_name
               => orders[j].agency_name = orders[k].agency_name
    /\ \A k \in 1..Len(orders) :
           IF TypeOfName(orders[k].advertiser_name) = "national"
           THEN orders[k].agency_name \in Vals(generate_agencies)
           ELSE orders[k].agency_name \in Vals(generate_agencies) \cup {NONE}

\* the national advertiser and the local one have two orders each; the
\* local one has no agency
AgencyPerAdvertiserWitness ==
    /\ \E j, k \in 1..Len(orders) :
           /\ j # k
           /\ orders[j].advertiser_name = orders[k].advertiser_name
           /\ TypeOfName(orders[k].advertiser_name) = "national"
    /\ \E j, k \in 1..Len(orders) :
           /\ j # k
           /\ orders[j].advertiser_name = orders[k].advertiser_name
           /\ TypeOfName(orders[k].advertiser_name) = "local"
           /\ orders[k].agency_name = NONE

\* C27: every spot of generate_spots has its air_date in the main range,
\* DATE_START <= air_date <= DATE_END, the spots of the orders that start
\* before DATE_START included.
AirDateRange ==
    \A k \in 1..Len(spots) :
        /\ DATE_START <= spots[k].air_date
        /\ spots[k].air_date <= DATE_END

\* generate_spots has returned a spot on DATE_START for an order that starts
\* before DATE_START
AirDateRangeWitness ==
    /\ SpotsDone
    /\ \E k \in 1..Len(spots) : \E j \in Owners(spots[k]) :
           /\ orders[j].start_date < DATE_START
           /\ spots[k].air_date = DATE_START

\* the spots of the table that are on the key of an inventory row
SpotsOfRow(row) ==
    {m \in 1..Len(spots) :
        /\ spots[m].station = row.station
        /\ spots[m].daypart = row.daypart
        /\ spots[m].air_date = row.date}

\* C28: in the inventory generate_inventory returns, the booked of every row
\* is the number of spots of the spots table with the row's station,
\* daypart and date, whatever their status, and the sum of booked over the
\* rows is the number of spots.
BookedCountsSpots ==
    InventoryDone =>
        /\ \A k \in 1..Len(inventory) :
               inventory[k].booked = Cardinality(SpotsOfRow(inventory[k]))
        /\ SumSeq([k \in 1..Len(inventory) |-> inventory[k].booked]) = Len(spots)

\* the inventory has a row that counts two spots of different status, and
\* another row that counts a spot
BookedCountsSpotsWitness ==
    /\ InventoryDone
    /\ \E k \in 1..Len(inventory) :
           /\ inventory[k].booked >= 2
           /\ \E m, n \in SpotsOfRow(inventory[k]) :
                  spots[m].status # spots[n].status
    /\ \E j, k \in 1..Len(inventory) :
           j # k /\ inventory[j].booked >= 1 /\ inventory[k].booked >= 1

\* the spots of the table that carry the order_id of an order
SpotsOfOrder(order) == {m \in 1..Len(spots) : spots[m].order_id = order.order_id}

\* C29: every order generate_orders returns has at least one spot once
\* generate_spots has returned, and a strictly positive order_total once
\* update_order_totals has returned.
EveryOrderHasSpots ==
    /\ SpotsDone => \A j \in 1..Len(orders) : SpotsOfOrder(orders[j]) # {}
    /\ TotalsDone => \A j \in 1..Len(orders) : orders[j].order_total > 0

\* the totals are backfilled; an order has exactly one spot, another has
\* more than one, and one of the orders is a warm-up order
EveryOrderHasSpotsWitness ==
    /\ TotalsDone
    /\ \E j \in 1..Len(orders) : Cardinality(SpotsOfOrder(orders[j])) = 1
    /\ \E j \in 1..Len(orders) : Cardinality(SpotsOfOrder(orders[j])) > 1
    /\ \E j \in 1..Len(orders) : orders[j].start_date < DATE_START

\* C30: update_order_totals returns the orders it was given, as many and in
\* the same sequence, with order_id, advertiser_name, agency_name,
\* order_date, start_date, end_date and station of every order unchanged,
\* order_total being the only column it changes; it adds, drops and
\* duplicates no order, and it leaves the spots table as it was.
BackfillFrame ==
    [][pc = "update_order_totals" =>
          /\ Len(orders') = Len(orders)
          /\ \A k \in 1..Len(orders) :
                 /\ orders'[k].order_id = orders[k].order_id
                 /\ orders'[k].advertiser_name = orders[k].advertiser_name
                 /\ orders'[k].agency_name = orders[k].agency_name
                 /\ orders'[k].order_date = orders[k].order_date
                 /\ orders'[k].start_date = orders[k].start_date
                 /\ orders'[k].end_date = orders[k].end_date
                 /\ orders'[k].station = orders[k].station
                 /\ DOMAIN orders'[k] = DOMAIN orders[k]
          /\ spots' = spots]_vars

\* the backfill has run on a table of two orders, one with spots, whose
\* total it has set, and one without, whose total is 0
BackfillFrameWitness ==
    /\ pc = "generate_inventory"
    /\ inv_k = 0
    /\ Len(orders) >= 2
    /\ \E j \in 1..Len(orders) :
           /\ HasGroup(spots, orders[j].order_id)
           /\ orders[j].order_total > 0
    /\ \E j \in 1..Len(orders) :
           /\ ~HasGroup(spots, orders[j].order_id)
           /\ orders[j].order_total = 0

\* C20: for every daypart _random_time_in_daypart returns a valid time of
\* day t (a minute of the day from 00:00 to 23:59) with start <= t < end
\* where the window does not wrap past midnight, and with t >= start or
\* t < end where it does (LF, 23:35 to 02:00).
TimeInWindow ==
    Returned("random_time_in_daypart") =>
        LET t == result
            start == DaypartStart(call.daypart)
            end == DaypartEnd(call.daypart)
        IN  /\ t \in 0..(24 * 60 - 1)
            /\ IF start < end
               THEN start <= t /\ t < end
               ELSE t >= start \/ t < end

\* a time after midnight in the window of LF, which wraps, and the draw it
\* came from is a minute of the next day
TimeInWindowWitness ==
    /\ Returned("random_time_in_daypart")
    /\ call.daypart = "LF"
    /\ call.rand_mins >= 24 * 60
    /\ result < DaypartEnd("LF")

====
